---------------------------- MODULE Spec2Model ----------------------------
(***************************************************************************)
(* A model of partial8086 (src/main.rs): an interpreter for a subset of    *)
(* the 8086 instruction set.  The processor state is the Cpu struct; one   *)
(* action stands for one arm of the opcode match in Cpu::run, taken as a   *)
(* whole call of run() from the loop in main.                              *)
(*                                                                         *)
(* Helper operators thread a record c (the Cpu fields plus the panic the   *)
(* call has raised, if any, and what has been printed) the way the Rust    *)
(* code threads &mut self.  An operator that returns a value returns the   *)
(* record [c |-> the state after, v |-> the value].  Let(e, F) is F(e)      *)
(* with e evaluated once, the way a Rust let binds a value.                *)
(***************************************************************************)
EXTENDS Integers, Sequences, FiniteSets

VARIABLES
    memory,           \* Cpu.memory, as the finite map of the bytes loaded or written; every other byte is 0
    ip,               \* Cpu.ip
    regs,             \* Cpu.regs: 16 bytes
    cf, zf, sf,       \* Cpu.cf, Cpu.zf, Cpu.sf
    pc,               \* where main is: "run", "halted", "panicked", "done"
    panic,            \* the message of the panic that ended the process, if one did
    stdout,           \* what println!/print! have written
    overflow_checks,  \* the build profile: TRUE when integer overflow panics (debug), FALSE when it wraps (release)
    hist              \* history: the processor state at the entry of every run() call made so far

vars == <<memory, ip, regs, cf, zf, sf, pc, panic, stdout, overflow_checks, hist>>

-----------------------------------------------------------------------------
(* Sizes *)

REG_WIDTH == 2
MEM_SIZE == 65536
REGS_SIZE == 16
U16 == 65536

NoPanic == "none"

Panicked(c) == c.panic # NoPanic

Raise(c, msg) == IF Panicked(c) THEN c ELSE [c EXCEPT !.panic = msg]

\* let x = value; Body(x)
Let(value, Body(_)) == CHOOSE r \in {Body(x) : x \in {value}} : TRUE

\* The u16 arithmetic forms of the source.  wrapping_add and wrapping_sub
\* never panic; a plain + or - panics when overflow checks are on and wraps
\* otherwise.
wrapping_add(a, b) == (a + b) % U16

wrapping_sub(a, b) == (a + U16 - b) % U16

Overflows(n) == n < 0 \/ n >= U16

Wrap(n) == (n + U16) % U16

-----------------------------------------------------------------------------
(* Bitwise operations on 16-bit words *)

RECURSIVE BitAnd(_, _, _)
BitAnd(a, b, n) ==
    IF n = 0 THEN 0
    ELSE ((a % 2) * (b % 2)) + 2 * BitAnd(a \div 2, b \div 2, n - 1)

RECURSIVE BitOr(_, _, _)
BitOr(a, b, n) ==
    IF n = 0 THEN 0
    ELSE (IF (a % 2) + (b % 2) > 0 THEN 1 ELSE 0) + 2 * BitOr(a \div 2, b \div 2, n - 1)

RECURSIVE BitXor(_, _, _)
BitXor(a, b, n) ==
    IF n = 0 THEN 0
    ELSE (((a % 2) + (b % 2)) % 2) + 2 * BitXor(a \div 2, b \div 2, n - 1)

-----------------------------------------------------------------------------
(* Pointers and the register constants *)

Pointer(rm, offset) == [rm |-> rm, offset |-> offset]

AX == Pointer("Register", 0)
BX == Pointer("Register", 3 * REG_WIDTH)
SP == Pointer("Register", 4 * REG_WIDTH)
BP == Pointer("Register", 5 * REG_WIDTH)
DI == Pointer("Register", 7 * REG_WIDTH)

\* mutant: the register number not reduced modulo 8
get_register_unreduced(offset) == Pointer("Register", offset * REG_WIDTH)

get_register(offset) == Pointer("Register", (offset % 8) * REG_WIDTH)

-----------------------------------------------------------------------------
(* little-endian conversions *)

to16(a, b) == b * 256 + a

to8s(value) == [a |-> value % 256, b |-> value \div 256]

sign_extend(a) == IF a >= 128 THEN a + 65280 ELSE a

-----------------------------------------------------------------------------
(* reading and writing registers / memory *)

\* memory[a] for an index the array has
MemAt(c, a) == IF a \in DOMAIN c.memory THEN c.memory[a] ELSE 0

\* memory[a] = value for an index the array has
MemPut(c, a, value) ==
    [c EXCEPT !.memory = [x \in (DOMAIN c.memory) \cup {a} |->
                             IF x = a THEN value ELSE c.memory[x]]]

read8(c, pointer) ==
    IF Panicked(c) THEN [c |-> c, v |-> 0]
    ELSE IF pointer.rm = "Register"
    THEN IF pointer.offset < REGS_SIZE
         THEN [c |-> c, v |-> c.regs[pointer.offset]]
         ELSE [c |-> Raise(c, "index out of bounds"), v |-> 0]
    ELSE IF pointer.offset < MEM_SIZE
         THEN [c |-> c, v |-> MemAt(c, pointer.offset)]
         ELSE [c |-> Raise(c, "index out of bounds"), v |-> 0]

\* offset is a usize: offset.wrapping_add(1) is offset + 1 for every offset
\* the program forms (at most 65535)
read16(c, pointer) ==
    Let(read8(c, pointer), LAMBDA a :
    Let(read8(a.c, Pointer(pointer.rm, pointer.offset + 1)), LAMBDA b :
        [c |-> b.c, v |-> to16(a.v, b.v)]))

write8(c, pointer, value) ==
    IF Panicked(c) THEN c
    ELSE IF pointer.rm = "Register"
    THEN IF pointer.offset < REGS_SIZE
         THEN [c EXCEPT !.regs[pointer.offset] = value]
         ELSE Raise(c, "index out of bounds")
    ELSE IF pointer.offset < MEM_SIZE
         THEN MemPut(c, pointer.offset, value)
         ELSE Raise(c, "index out of bounds")

write16(c, pointer, value) ==
    Let(to8s(value), LAMBDA ab :
    Let(write8(c, pointer, ab.a), LAMBDA c1 :
        write8(c1, Pointer(pointer.rm, pointer.offset + 1), ab.b)))

-----------------------------------------------------------------------------
(* reading from the instruction pointer *)

read_instr8(c) ==
    IF Panicked(c) THEN [c |-> c, v |-> 0]
    ELSE Let(MemAt(c, c.ip), LAMBDA read :
         IF Overflows(c.ip + 1) /\ overflow_checks
         THEN [c |-> Raise(c, "attempt to add with overflow"), v |-> read]
         ELSE [c |-> [c EXCEPT !.ip = Wrap(c.ip + 1)], v |-> read])

read_instr16(c) ==
    Let(read_instr8(c), LAMBDA a :
    Let(read_instr8(a.c), LAMBDA b :
        [c |-> b.c, v |-> to16(a.v, b.v)]))

-----------------------------------------------------------------------------
(* pushing / popping the stack *)

push8(c, value) ==
    IF Panicked(c) THEN c
    ELSE Let(read16(c, SP), LAMBDA sp :
         Let(MemPut(sp.c, sp.v, value), LAMBDA c1 :
         IF Overflows(sp.v - 1) /\ overflow_checks
         THEN Raise(c1, "attempt to subtract with overflow")
         ELSE write16(c1, SP, Wrap(sp.v - 1))))

push16(c, value) ==
    Let(to8s(value), LAMBDA ab :
    Let(push8(c, ab.a), LAMBDA c1 :
        push8(c1, ab.b)))

pop8(c) ==
    IF Panicked(c) THEN [c |-> c, v |-> 0]
    ELSE Let(read16(c, SP), LAMBDA r :
         IF Overflows(r.v + 1) /\ overflow_checks
         THEN [c |-> Raise(r.c, "attempt to add with overflow"), v |-> 0]
         ELSE Let(Wrap(r.v + 1), LAMBDA sp :
              [c |-> write16(r.c, SP, sp), v |-> MemAt(r.c, sp)]))

\* mutant: the bytes assembled in the order they went on
pop16_same_order(c) ==
    Let(pop8(c), LAMBDA a :
    Let(pop8(a.c), LAMBDA b :
        [c |-> b.c, v |-> to16(a.v, b.v)]))

\* bytes come off the stack in the opposite order they go on
pop16(c) ==
    Let(pop8(c), LAMBDA b :
    Let(pop8(b.c), LAMBDA a :
        [c |-> a.c, v |-> to16(a.v, b.v)]))

-----------------------------------------------------------------------------
(* the addressing-mode byte *)

MemoryOperand(c, offset) == [c |-> c, ptr |-> Pointer("Memory", offset)]

\* the match on md and rm; md is mod_rm >> 6, so the arm for any other md
\* is never taken
read_mod_rm_operand(c, md, rm) ==
    CASE md = 0 /\ rm = 1 ->
           Let(read16(c, BX), LAMBDA bx :
           Let(read16(bx.c, DI), LAMBDA di :
               MemoryOperand(di.c, wrapping_add(bx.v, di.v))))
      [] md = 0 /\ rm = 6 ->
           Let(read_instr16(c), LAMBDA w : MemoryOperand(w.c, w.v))
      [] md = 0 /\ rm = 7 ->
           Let(read16(c, BX), LAMBDA bx : MemoryOperand(bx.c, bx.v))
      [] md = 1 /\ rm = 3 ->
           Let(read16(c, BP), LAMBDA bp :
           Let(read16(bp.c, DI), LAMBDA di :
           Let(read_instr8(di.c), LAMBDA byte :
               MemoryOperand(byte.c, wrapping_add(wrapping_add(bp.v, di.v), byte.v)))))
      [] md = 2 /\ rm = 5 ->
           Let(read16(c, DI), LAMBDA di :
           Let(read_instr16(di.c), LAMBDA word :
               MemoryOperand(word.c, wrapping_add(di.v, word.v))))
      [] md = 2 /\ rm = 7 ->
           Let(read16(c, BX), LAMBDA bx :
           Let(read_instr16(bx.c), LAMBDA word :
               MemoryOperand(word.c, wrapping_add(bx.v, word.v))))
      [] md = 3 -> [c |-> c, ptr |-> get_register(rm)]
      [] OTHER -> [c |-> Raise(c, "unsupported r/m"), ptr |-> AX]

\* mutant: the r/m field masked with 0b11
read_mod_rm_narrow_mask(c) ==
    Let(read_instr8(c), LAMBDA mod_rm :
    Let(read_mod_rm_operand(mod_rm.c, mod_rm.v \div 64, mod_rm.v % 4), LAMBDA operand :
        [c |-> operand.c, ptr |-> operand.ptr, rg_op |-> (mod_rm.v \div 8) % 8]))

read_mod_rm(c) ==
    Let(read_instr8(c), LAMBDA mod_rm :
    Let(read_mod_rm_operand(mod_rm.c, mod_rm.v \div 64, mod_rm.v % 8), LAMBDA operand :
        [c |-> operand.c, ptr |-> operand.ptr, rg_op |-> (mod_rm.v \div 8) % 8]))

-----------------------------------------------------------------------------
(* arithmetic logic unit *)

Operation_from_u8(n) ==
    CASE n = 0 -> "Add" [] n = 1 -> "Or"  [] n = 2 -> "Adc" [] n = 3 -> "Sbb"
      [] n = 4 -> "And" [] n = 5 -> "Sub" [] n = 6 -> "Xor" [] n = 7 -> "Cmp"
      [] OTHER -> "None"

set_flags(c, value) ==
    IF Panicked(c) THEN c
    ELSE [c EXCEPT !.zf = (value = 0), !.sf = (value \div 32768 = 1)]

alu_add(c, operation, op1, op2) ==
    Let(operation = "Adc" /\ c.cf, LAMBDA carry_in :
    Let(wrapping_add(op1, IF carry_in THEN Wrap(op2 + 1) ELSE op2), LAMBDA result :
        IF carry_in /\ Overflows(op2 + 1) /\ overflow_checks
        THEN [c |-> Raise(c, "attempt to add with overflow"), v |-> 0]
        ELSE [c |-> [c EXCEPT !.cf = result < op1], v |-> result]))

\* mutant: the subtrahend added
alu_sub_adds(c, operation, op1, op2) ==
    Let(operation = "Sbb" /\ c.cf, LAMBDA borrow_in :
    Let(wrapping_add(op1, IF borrow_in THEN Wrap(op2 + 1) ELSE op2), LAMBDA result :
        IF borrow_in /\ Overflows(op2 + 1) /\ overflow_checks
        THEN [c |-> Raise(c, "attempt to add with overflow"), v |-> 0]
        ELSE [c |-> [c EXCEPT !.cf = result > op1], v |-> result]))

alu_sub(c, operation, op1, op2) ==
    Let(operation = "Sbb" /\ c.cf, LAMBDA borrow_in :
    Let(wrapping_sub(op1, IF borrow_in THEN Wrap(op2 + 1) ELSE op2), LAMBDA result :
        IF borrow_in /\ Overflows(op2 + 1) /\ overflow_checks
        THEN [c |-> Raise(c, "attempt to add with overflow"), v |-> 0]
        ELSE [c |-> [c EXCEPT !.cf = result > op1], v |-> result]))

\* mutant: the carry flag left as it was
alu_logic_keeps_carry(c, operation, op1, op2) ==
    [c |-> c,
     v |-> CASE operation = "And" -> BitAnd(op1, op2, 16)
             [] operation = "Or"  -> BitOr(op1, op2, 16)
             [] operation = "Xor" -> BitXor(op1, op2, 16)]

alu_logic(c, operation, op1, op2) ==
    [c |-> [c EXCEPT !.cf = FALSE],
     v |-> CASE operation = "And" -> BitAnd(op1, op2, 16)
             [] operation = "Or"  -> BitOr(op1, op2, 16)
             [] operation = "Xor" -> BitXor(op1, op2, 16)]

\* mutant: Cmp hands its callers the difference, as Sub does
alu_cmp_gives_difference(c, operation, op1, op2) ==
    IF Panicked(c) THEN [c |-> c, v |-> 0]
    ELSE IF operation = "None"
    THEN [c |-> Raise(c, "called Option::unwrap() on a None value"), v |-> 0]
    ELSE Let(CASE operation \in {"Add", "Adc"} -> alu_add(c, operation, op1, op2)
               [] operation \in {"Sub", "Sbb", "Cmp"} -> alu_sub(c, operation, op1, op2)
               [] operation \in {"And", "Or", "Xor"} -> alu_logic(c, operation, op1, op2),
             LAMBDA r : [c |-> set_flags(r.c, r.v), v |-> r.v])

alu(c, operation, op1, op2) ==
    IF Panicked(c) THEN [c |-> c, v |-> 0]
    ELSE IF operation = "None"
    THEN [c |-> Raise(c, "called Option::unwrap() on a None value"), v |-> 0]
    ELSE Let(CASE operation \in {"Add", "Adc"} -> alu_add(c, operation, op1, op2)
               [] operation \in {"Sub", "Sbb", "Cmp"} -> alu_sub(c, operation, op1, op2)
               [] operation \in {"And", "Or", "Xor"} -> alu_logic(c, operation, op1, op2),
             LAMBDA r :
                [c |-> set_flags(r.c, r.v), v |-> IF operation = "Cmp" THEN op1 ELSE r.v])

jump_short(c, condition) ==
    Let(read_instr8(c), LAMBDA offset :
        IF condition /\ ~Panicked(offset.c)
        THEN [offset.c EXCEPT !.ip = wrapping_add(offset.c.ip, sign_extend(offset.v))]
        ELSE offset.c)

-----------------------------------------------------------------------------
(* The arms of the opcode match in Cpu::run.  Each takes the state after the *)
(* opcode fetch and the opcode, and gives the state when run() returns (or   *)
(* panics) with ret, the value run() returns.                                *)

Continue(c) == [c |-> c, ret |-> TRUE]

\* 0x1 | 0x9 | 0x19 | 0x29 | 0x31 | 0x39: 16 bit register to 16 bit r/m
alu16_operation(opcode) ==
    CASE opcode = \h01 -> "Add"
      [] opcode = \h09 -> "And"
      [] opcode = \h19 -> "Sbb"
      [] opcode = \h29 -> "Sub"
      [] opcode = \h31 -> "Xor"
      [] opcode = \h39 -> "Cmp"

arm_alu16_reg_rm(c, opcode) ==
    Let(read_mod_rm(c), LAMBDA m :
    Let(read16(m.c, m.ptr), LAMBDA op1 :
    Let(read16(op1.c, get_register(m.rg_op)), LAMBDA op2 :
    Let(alu(op2.c, alu16_operation(opcode), op1.v, op2.v), LAMBDA result :
        Continue(write16(result.c, m.ptr, result.v))))))

\* 0x4: ADD 8 bit immediate to register AL
arm_add_al_imm8(c, opcode) ==
    Let(read8(c, AX), LAMBDA a :
    Let(read_instr8(a.c), LAMBDA b :
    Let(alu(b.c, "Add", sign_extend(a.v), sign_extend(b.v)), LAMBDA result :
        Continue(write8(result.c, AX, result.v % 256)))))

\* 0x20: AND 8 bit register, 8 bit r/m
arm_and8_reg_rm(c, opcode) ==
    Let(read_mod_rm(c), LAMBDA m :
    Let(read8(m.c, m.ptr), LAMBDA a :
    Let(read8(a.c, get_register(m.rg_op)), LAMBDA b :
    Let(alu(b.c, "And", sign_extend(a.v), sign_extend(b.v)), LAMBDA result :
        Continue(write8(result.c, m.ptr, result.v % 256))))))

\* 0x3c: compare 8 bit immediate to register AL
arm_cmp_al_imm8(c, opcode) ==
    Let(read8(c, AX), LAMBDA a :
    Let(read_instr8(a.c), LAMBDA b :
    Let(alu(b.c, "Cmp", sign_extend(a.v), sign_extend(b.v)), LAMBDA result :
        Continue(result.c))))

\* mutant: the increment done by the ALU, which also sets CF
arm_inc16_through_alu(c, opcode) ==
    Let(read16(c, get_register(opcode)), LAMBDA r :
    Let(alu(r.c, "Add", r.v, 1), LAMBDA result :
        Continue(write16(result.c, get_register(opcode), result.v))))

\* 0x40..=0x47: increment 16 bit register
arm_inc16(c, opcode) ==
    Let(read16(c, get_register(opcode)), LAMBDA r :
    Let(wrapping_add(r.v, 1), LAMBDA value :
    Let(set_flags(r.c, value), LAMBDA c1 :
        Continue(write16(c1, get_register(opcode), value)))))

\* mutant: the decrement arm a copy of the increment arm
arm_dec16_increments(c, opcode) ==
    Let(read16(c, get_register(opcode)), LAMBDA r :
    Let(wrapping_add(r.v, 1), LAMBDA value :
    Let(set_flags(r.c, value), LAMBDA c1 :
        Continue(write16(c1, get_register(opcode), value)))))

\* 0x48..=0x4f: decrement 16 bit register
arm_dec16(c, opcode) ==
    Let(read16(c, get_register(opcode)), LAMBDA r :
    Let(wrapping_sub(r.v, 1), LAMBDA value :
    Let(set_flags(r.c, value), LAMBDA c1 :
        Continue(write16(c1, get_register(opcode), value)))))

\* 0x50..=0x57: push 16 bit register
arm_push16(c, opcode) ==
    Let(read16(c, get_register(opcode)), LAMBDA value :
        Continue(push16(value.c, value.v)))

\* 0x58..=0x5f: pop 16 bit register
arm_pop16(c, opcode) ==
    Let(pop16(c), LAMBDA value :
        Continue(write16(value.c, get_register(opcode), value.v)))

\* 0x72, 0x74, 0x75, 0x76, 0x77, 0x79, 0xeb: the condition handed to jump_short
jump_condition(c, opcode) ==
    CASE opcode = \h72 -> c.cf
      [] opcode = \h74 -> c.zf
      [] opcode = \h75 -> ~c.zf
      [] opcode = \h76 -> c.cf \/ c.zf
      [] opcode = \h77 -> ~c.cf /\ ~c.zf
      [] opcode = \h79 -> ~c.sf
      [] opcode = \hEB -> TRUE

arm_jump(c, opcode) == Continue(jump_short(c, jump_condition(c, opcode)))

\* 0x80: 8 bit arithmetic
arm_arith8(c, opcode) ==
    Let(read_mod_rm(c), LAMBDA m :
    Let(read8(m.c, m.ptr), LAMBDA a :
    Let(read_instr8(a.c), LAMBDA b :
    Let(alu(b.c, Operation_from_u8(m.rg_op), sign_extend(a.v), sign_extend(b.v)),
        LAMBDA result :
        Continue(write8(result.c, m.ptr, result.v % 256))))))

\* 0x81: 16 bit arithmetic
arm_arith16(c, opcode) ==
    Let(read_mod_rm(c), LAMBDA m :
    Let(read16(m.c, m.ptr), LAMBDA op1 :
    Let(read_instr16(op1.c), LAMBDA op2 :
    Let(alu(op2.c, Operation_from_u8(m.rg_op), op1.v, op2.v), LAMBDA result :
        Continue(write16(result.c, m.ptr, result.v))))))

\* 0x83: 16 bit / 8 bit arithmetic
arm_arith16_imm8(c, opcode) ==
    Let(read_mod_rm(c), LAMBDA m :
    Let(read16(m.c, m.ptr), LAMBDA op1 :
    Let(read_instr8(op1.c), LAMBDA op2 :
    Let(alu(op2.c, Operation_from_u8(m.rg_op), op1.v, sign_extend(op2.v)), LAMBDA result :
        Continue(write16(result.c, m.ptr, result.v))))))

\* 0x86: exchange 8 bit register with 8 bit r/m
arm_xchg8(c, opcode) ==
    Let(read_mod_rm(c), LAMBDA m :
    Let(read8(m.c, m.ptr), LAMBDA a :
    Let(read8(a.c, get_register(m.rg_op)), LAMBDA b :
    Let(write8(b.c, m.ptr, b.v), LAMBDA c1 :
        Continue(write8(c1, get_register(m.rg_op), a.v))))))

\* 0x88: move 8 bit register to 8 bit r/m
arm_mov8_reg_rm(c, opcode) ==
    Let(read_mod_rm(c), LAMBDA m :
    Let(read8(m.c, get_register(m.rg_op)), LAMBDA value :
        Continue(write8(value.c, m.ptr, value.v))))

\* mutant: the move sets ZF and SF from the value moved
arm_mov16_reg_rm_sets_flags(c, opcode) ==
    Let(read_mod_rm(c), LAMBDA m :
    Let(read16(m.c, get_register(m.rg_op)), LAMBDA value :
        Continue(write16(set_flags(value.c, value.v), m.ptr, value.v))))

\* 0x89: move 16 bit register to 16 bit r/m
arm_mov16_reg_rm(c, opcode) ==
    Let(read_mod_rm(c), LAMBDA m :
    Let(read16(m.c, get_register(m.rg_op)), LAMBDA value :
        Continue(write16(value.c, m.ptr, value.v))))

\* 0x8a: move 8 bit r/m to 8 bit register
arm_mov8_rm_reg(c, opcode) ==
    Let(read_mod_rm(c), LAMBDA m :
    Let(read8(m.c, m.ptr), LAMBDA value :
        Continue(write8(value.c, get_register(m.rg_op), value.v))))

\* 0x8b: move 16 bit r/m to 16 bit register
arm_mov16_rm_reg(c, opcode) ==
    Let(read_mod_rm(c), LAMBDA m :
    Let(read16(m.c, m.ptr), LAMBDA value :
        Continue(write16(value.c, get_register(m.rg_op), value.v))))

\* 0x90: NOP
arm_nop(c, opcode) == Continue(c)

\* 0x91..=0x97: exchange 16 bit register with register AX
arm_xchg_ax(c, opcode) ==
    Let(read16(c, AX), LAMBDA a :
    Let(read16(a.c, get_register(opcode)), LAMBDA b :
    Let(write16(b.c, AX, b.v), LAMBDA c1 :
        Continue(write16(c1, get_register(opcode), a.v)))))

\* 0xb0..=0xb7: move 8 bit immediate to 8 bit register
arm_mov_imm8(c, opcode) ==
    Let(read_instr8(c), LAMBDA value :
        Continue(write16(value.c, get_register(opcode), value.v)))

\* 0xb8..=0xbf: move 16 bit immediate to 16 bit register
arm_mov_imm16(c, opcode) ==
    Let(read_instr16(c), LAMBDA value :
        Continue(write16(value.c, get_register(opcode), value.v)))

\* 0xc3: return near
arm_ret(c, opcode) ==
    Let(pop16(c), LAMBDA value :
        Continue(IF Panicked(value.c) THEN value.c ELSE [value.c EXCEPT !.ip = value.v]))

\* 0xc7: move 16 bit immediate to 16 bit r/m
arm_mov_imm16_rm(c, opcode) ==
    Let(read_mod_rm(c), LAMBDA m :
    Let(read_instr16(m.c), LAMBDA value :
        Continue(write16(value.c, m.ptr, value.v))))

\* 0xe8: call relative
arm_call(c, opcode) ==
    Let(read_instr16(c), LAMBDA offset :
    Let(push16(offset.c, offset.c.ip), LAMBDA pushed :
        Continue(IF Panicked(pushed) THEN pushed
                 ELSE [pushed EXCEPT !.ip = wrapping_add(pushed.ip, offset.v)])))

\* 0xf4: halt
arm_halt(c, opcode) == [c |-> c, ret |-> FALSE]

\* 0xf9: set carry flag
arm_stc(c, opcode) == Continue([c EXCEPT !.cf = TRUE])

\* 0xfe: increment | decrement 8 bit r/m
arm_incdec8(c, opcode) ==
    Let(read_mod_rm(c), LAMBDA m :
        IF ~Panicked(m.c) /\ m.rg_op \notin {0, 1}
        THEN Continue(Raise(m.c, "internal error: entered unreachable code"))
        ELSE Let(read8(m.c, m.ptr), LAMBDA a :
             Let(IF m.rg_op = 0 THEN (a.v + 1) % 256 ELSE (a.v + 255) % 256, LAMBDA value :
             Let(set_flags(a.c, sign_extend(value)), LAMBDA c1 :
                 Continue(write8(c1, m.ptr, value))))))

\* mutant: the unsupported opcode reported, and the loop goes on
arm_unsupported_continues(c, opcode) ==
    [c |-> [c EXCEPT !.stdout = Append(c.stdout, [unsupported_opcode |-> opcode])],
     ret |-> TRUE]

\* _: println!("unsupported opcode {:#x}", opcode)
arm_unsupported(c, opcode) ==
    [c |-> [c EXCEPT !.stdout = Append(c.stdout, [unsupported_opcode |-> opcode])],
     ret |-> FALSE]

-----------------------------------------------------------------------------
(* Bounds of the model *)

\* run() is called at most MaxSteps times
MaxSteps == 8

\* operand values are taken within MaxDelta of the 8- and 16-bit boundaries
MaxDelta == 1

\* code is placed at address 0 and at the last MaxTop addresses of memory
MaxTop == 2

-----------------------------------------------------------------------------
(* The program images load_program reads: byte sequences placed in memory  *)
(* by address, every byte not named being 0.                               *)

Near(p, limit) == {v \in (p - MaxDelta)..(p + MaxDelta) : v >= 0 /\ v < limit}

\* 16-bit values at the unsigned and the signed boundary
EdgeWords == UNION {Near(p, U16) : p \in {0, 32768, 65535}}

Words == EdgeWords \cup Near(256, U16) \cup {\h1234}

Bytes == UNION {Near(p, 256) : p \in {0, 128, 255}}

Lo(w) == w % 256

Hi(w) == w \div 256

\* the bytes of seq at base, base + 1, ... (mod 2^16)
At(base, seq) ==
    [a \in {(base + i - 1) % U16 : i \in 1..Len(seq)} |->
        seq[((a + U16 - base) % U16) + 1]]

\* two pieces of an image; where both name an address the first stands
Overlay(f, g) == [a \in (DOMAIN f) \cup (DOMAIN g) |-> IF a \in DOMAIN f THEN f[a] ELSE g[a]]

\* the addresses code is placed at besides 0
Sites == {512} \cup {U16 - k : k \in 1..MaxTop}

\* code placed at site: at 0 it is the image; elsewhere a relative call at
\* address 0 enters it
Placed(site, code) ==
    IF site = 0 THEN At(0, code)
    ELSE Overlay(At(0, <<\hE8, Lo(wrapping_sub(site, 3)), Hi(wrapping_sub(site, 3))>>),
                 At(site, code))

MovImm16(r, w) == <<\hB8 + r, Lo(w), Hi(w)>>

Hlt == <<\hF4>>

CarrySetup == {<<\hF9>>, <<\h90>>}

StackPrograms ==
    {At(0, MovImm16(4, s) \o MovImm16(0, x) \o <<\h50, \h5B>> \o Hlt) :
        s \in Words, x \in EdgeWords}
    \cup {At(0, MovImm16(4, s) \o <<\h50 + r, \h58 + q>> \o Hlt) :
        s \in Words, r \in {4, 3}, q \in {4, 1}}

WordMemoryPrograms ==
    {At(0, MovImm16(3, b) \o MovImm16(0, v) \o <<\h89, \h07, \h8B, \h0F>> \o Hlt) :
        b \in Words, v \in {\h1234, \hFFFF}}

MovImmPrograms ==
    {At(0, MovImm16(r, v) \o <<\hB0 + r, i, \h90>> \o Hlt) :
        r \in 0..7, v \in {\h1234, \hFFFF}, i \in Bytes}
    \cup {At(0, MovImm16(r, v) \o Hlt) : r \in 0..7, v \in {5, \h1234}}
    \cup {Placed(site, MovImm16(r, v) \o Hlt) : site \in Sites, r \in {0, 7}, v \in Words}
    \cup {Placed(site, <<\hB0 + r, i>> \o Hlt) : site \in Sites, r \in {0, 7}, i \in {2}}
    \cup {At(0, <<\hB0, \h02, \hB0, \h03, \h90, \hF4>>)}

AluPrograms ==
    {At(0, f \o MovImm16(0, a) \o <<\h81, \hC0 + 8 * op, Lo(b), Hi(b)>> \o Hlt) :
        f \in CarrySetup, a \in EdgeWords, b \in EdgeWords, op \in 0..7}
    \cup {At(0, <<\hF9>> \o MovImm16(0, a) \o MovImm16(1, b) \o <<opc, \hC8>> \o Hlt) :
        a \in EdgeWords, b \in EdgeWords, opc \in {\h01, \h09, \h19, \h29, \h31, \h39}}
    \cup {At(0, <<\hF9>> \o MovImm16(0, a) \o <<\h83, \hC0 + 8 * op, i>> \o Hlt) :
        a \in EdgeWords, i \in Bytes, op \in 0..7}

Alu8Programs ==
    {At(0, MovImm16(0, to16(a, \h12)) \o <<opc, i>> \o Hlt) :
        a \in Bytes, i \in Bytes, opc \in {\h04, \h3C}}
    \cup {At(0, MovImm16(0, to16(a, \h12)) \o <<\h80, \hC0 + 8 * op, i>> \o Hlt) :
        a \in Bytes, i \in Bytes, op \in 0..7}
    \cup {At(0, MovImm16(0, to16(a, \h12)) \o MovImm16(1, to16(b, \h34))
                \o <<\h20, \hC8>> \o Hlt) :
        a \in Bytes, b \in Bytes}

\* the opcodes followed by an addressing-mode byte
ModRmOpcodes ==
    {\h01, \h09, \h19, \h29, \h31, \h39,
     \h20, \h80, \h81, \h83, \h86, \h88, \h89, \h8A, \h8B, \hC7, \hFE}

ModRmByte(md, rg, rm) == 64 * md + 8 * rg + rm

ModRmPrograms ==
    {At(0, MovImm16(3, \h0200) \o MovImm16(5, \h0300) \o MovImm16(7, \h0010)
           \o MovImm16(0, \h1234)
           \o <<opc, ModRmByte(md, rg, rm), \h04, \h05, \h06, \h00, \hF4>>) :
        opc \in {\h01, \h39, \h20, \h86, \h88, \h89, \h8A, \h8B, \hC7},
        md \in 0..3, rg \in {1}, rm \in 0..7}
    \cup {At(0, MovImm16(3, \h0200) \o MovImm16(5, \h0300) \o MovImm16(7, \h0010)
           \o MovImm16(0, \h1234)
           \o <<opc, ModRmByte(md, rg, rm), \h04, \h05, \h06, \h00, \hF4>>) :
        opc \in {\h80, \h81, \h83}, md \in 0..3, rg \in {0, 7}, rm \in 0..7}
    \cup {At(0, <<\hFE, ModRmByte(md, rg, rm), \h04, \h05, \h06, \h00, \hF4>>) :
        md \in 0..3, rg \in 0..7, rm \in 0..7}

DisplacementPrograms ==
    {At(0, MovImm16(5, x) \o MovImm16(7, y) \o MovImm16(0, \h1234)
           \o <<\h89, \h43, d>> \o Hlt) :
        x \in EdgeWords, y \in Near(0, U16) \cup {16}, d \in Bytes}

JumpOpcodes == {\h72, \h74, \h75, \h76, \h77, \h79, \hEB}

\* or ax, sign_extend(i) leaves ZF and SF as i decides; then CF is set or
\* not; then the jump at site with displacement d
JumpPrograms ==
    {Placed(wrapping_sub(site, 4), <<\h83, \hC8, i>> \o f \o <<jop, d>>) :
        site \in Sites, i \in {0, 1, 128}, f \in CarrySetup,
        jop \in JumpOpcodes, d \in Near(128, 256) \cup {0, 255}}

CallPrograms ==
    {Overlay(At(0, MovImm16(4, s) \o <<\hE8, Lo(w), Hi(w)>> \o Hlt),
             At(wrapping_add(6, w), <<\hC3>>)) :
        s \in Words, w \in EdgeWords}
    \cup {Overlay(Placed(site, <<\hE8, \h10, \h00>>),
                  At(wrapping_add(site, \h13), <<\hC3>>)) :
            site \in Sites}

SupportedOpcodes ==
    {\h01, \h09, \h19, \h29, \h31, \h39, \h04, \h20, \h3C} \cup (\h40..\h5F)
    \cup JumpOpcodes \cup {\h80, \h81, \h83, \h86, \h88, \h89, \h8A, \h8B}
    \cup (\h90..\h97) \cup (\hB0..\hBF) \cup {\hC3, \hC7, \hE8, \hF4, \hF9, \hFE}

UnsupportedPrograms ==
    {At(0, <<b, \hF9, \hF4>>) : b \in (0..255) \ SupportedOpcodes}

IncDecPrograms ==
    {At(0, MovImm16(r, v) \o <<first + r, second + r>> \o Hlt) :
        r \in 0..7, v \in EdgeWords, first \in {\h40, \h48}, second \in {\h40, \h48}}

XchgPrograms ==
    {At(0, MovImm16(0, a) \o MovImm16(r, b) \o <<\h90 + r>> \o Hlt) :
        r \in 1..7, a \in {\h1234}, b \in EdgeWords}

\* sub r, b followed by add r, b (0x81 /5 and /0 on a register)
SubAddPrograms ==
    {At(0, MovImm16(r, a) \o <<\h81, \hE8 + r, Lo(b), Hi(b)>>
           \o <<\h81, \hC0 + r, Lo(b), Hi(b)>> \o Hlt) :
        r \in {0, 3}, a \in EdgeWords, b \in EdgeWords}

\* instructions that are to leave some or all of the flags alone: moves,
\* exchanges, the no-op, increments, decrements and set-carry
FrameInstructions ==
    {<<\h88, \hC8>>, <<\h89, \hC8>>, <<\h8A, \hC8>>, <<\h8B, \hC8>>,
     <<\h89, \h07>>, <<\h8B, \h07>>, <<\h88, \h07>>, <<\h8A, \h07>>,
     <<\hB1, \h80>>, <<\hB9, \h00, \h80>>, <<\hC7, \hC1, \h00, \h80>>,
     <<\hC7, \h07, \h00, \h80>>, <<\h86, \hC8>>, <<\h86, \h07>>, <<\h91>>, <<\h90>>,
     <<\h40>>, <<\h48>>, <<\h43>>, <<\h4B>>,
     <<\hFE, \hC0>>, <<\hFE, \hC8>>, <<\hFE, \h07>>, <<\hFE, \h0F>>, <<\hF9>>}

\* or ax, sign_extend(i) leaves ZF and SF as i decides; then CF is set or
\* not; then one instruction
FlagFramePrograms ==
    {At(0, <<\h83, \hC8, i>> \o f \o instruction \o Hlt) :
        i \in {0, 1, 128, 255}, f \in CarrySetup, instruction \in FrameInstructions}

Programs ==
    <<StackPrograms, WordMemoryPrograms, MovImmPrograms, AluPrograms,
      Alu8Programs, ModRmPrograms, DisplacementPrograms, JumpPrograms,
      CallPrograms, UnsupportedPrograms, IncDecPrograms, XchgPrograms,
      SubAddPrograms, FlagFramePrograms>>

-----------------------------------------------------------------------------
(* main: Cpu::new, load_program, the run loop, dump_memory *)

\* the Cpu fields as the record the helpers thread
Self ==
    [memory |-> memory, ip |-> ip, regs |-> regs, cf |-> cf, zf |-> zf, sf |-> sf,
     panic |-> NoPanic, stdout |-> stdout]

Cpu_new ==
    write16([memory |-> << >>, ip |-> 0, regs |-> [i \in 0..(REGS_SIZE - 1) |-> 0],
             cf |-> FALSE, zf |-> FALSE, sf |-> FALSE,
             panic |-> NoPanic, stdout |-> << >>],
            SP, \h100)

load_program(c, image) == [c EXCEPT !.memory = image]

Init ==
    \E family \in DOMAIN Programs : \E image \in Programs[family] :
        \E cpu \in {load_program(Cpu_new, image)} :
            /\ memory = cpu.memory
            /\ ip = cpu.ip
            /\ regs = cpu.regs
            /\ cf = cpu.cf
            /\ zf = cpu.zf
            /\ sf = cpu.sf
            /\ pc = "run"
            /\ panic = cpu.panic
            /\ stdout = cpu.stdout
            /\ overflow_checks \in BOOLEAN
            /\ hist = << >>

\* main is in its loop and the byte at ip, which run() fetches next, is one
\* of opcodes
Fetches(opcodes) ==
    /\ pc = "run"
    /\ Len(hist) < MaxSteps
    /\ MemAt(Self, ip) \in opcodes

\* one call of run() from the loop of main: the opcode fetch, then the arm
Run(Arm(_, _)) ==
    \E self \in {Self} : \E fetch \in {read_instr8(self)} :
    \E r \in {IF Panicked(fetch.c) THEN Continue(fetch.c) ELSE Arm(fetch.c, fetch.v)} :
        /\ memory' = r.c.memory
        /\ ip' = r.c.ip
        /\ regs' = r.c.regs
        /\ cf' = r.c.cf
        /\ zf' = r.c.zf
        /\ sf' = r.c.sf
        /\ stdout' = r.c.stdout
        /\ pc' = IF Panicked(r.c) THEN "panicked"
                 ELSE IF r.ret THEN "run" ELSE "halted"
        /\ panic' = r.c.panic
        /\ hist' = Append(hist, self)
        /\ UNCHANGED overflow_checks

RunAlu16RegRm == Fetches({\h01, \h09, \h19, \h29, \h31, \h39}) /\ Run(arm_alu16_reg_rm)
RunAddAlImm8 == Fetches({\h04}) /\ Run(arm_add_al_imm8)
RunAnd8RegRm == Fetches({\h20}) /\ Run(arm_and8_reg_rm)
RunCmpAlImm8 == Fetches({\h3C}) /\ Run(arm_cmp_al_imm8)
RunInc16 == Fetches(\h40..\h47) /\ Run(arm_inc16)
RunDec16 == Fetches(\h48..\h4F) /\ Run(arm_dec16)
RunPush16 == Fetches(\h50..\h57) /\ Run(arm_push16)
RunPop16 == Fetches(\h58..\h5F) /\ Run(arm_pop16)
RunJc == Fetches({\h72}) /\ Run(arm_jump)
RunJz == Fetches({\h74}) /\ Run(arm_jump)
RunJnz == Fetches({\h75}) /\ Run(arm_jump)
RunJbe == Fetches({\h76}) /\ Run(arm_jump)
RunJnbe == Fetches({\h77}) /\ Run(arm_jump)
RunJns == Fetches({\h79}) /\ Run(arm_jump)
RunArith8 == Fetches({\h80}) /\ Run(arm_arith8)
RunArith16 == Fetches({\h81}) /\ Run(arm_arith16)
RunArith16Imm8 == Fetches({\h83}) /\ Run(arm_arith16_imm8)
RunXchg8 == Fetches({\h86}) /\ Run(arm_xchg8)
RunMov8RegRm == Fetches({\h88}) /\ Run(arm_mov8_reg_rm)
RunMov16RegRm == Fetches({\h89}) /\ Run(arm_mov16_reg_rm)
RunMov8RmReg == Fetches({\h8A}) /\ Run(arm_mov8_rm_reg)
RunMov16RmReg == Fetches({\h8B}) /\ Run(arm_mov16_rm_reg)
RunNop == Fetches({\h90}) /\ Run(arm_nop)
RunXchgAx == Fetches(\h91..\h97) /\ Run(arm_xchg_ax)
RunMovImm8 == Fetches(\hB0..\hB7) /\ Run(arm_mov_imm8)
RunMovImm16 == Fetches(\hB8..\hBF) /\ Run(arm_mov_imm16)
RunRet == Fetches({\hC3}) /\ Run(arm_ret)
RunMovImm16Rm == Fetches({\hC7}) /\ Run(arm_mov_imm16_rm)
RunCall == Fetches({\hE8}) /\ Run(arm_call)
RunJmpShort == Fetches({\hEB}) /\ Run(arm_jump)
RunHalt == Fetches({\hF4}) /\ Run(arm_halt)
RunStc == Fetches({\hF9}) /\ Run(arm_stc)
RunIncDec8 == Fetches({\hFE}) /\ Run(arm_incdec8)
RunUnsupported == Fetches((0..255) \ SupportedOpcodes) /\ Run(arm_unsupported)

\* after the loop: the 80 x 25 window at 0x8000, as the cells that are not blank
dump_memory ==
    /\ pc = "halted"
    /\ pc' = "done"
    /\ stdout' = Append(stdout,
          [screen |-> [a \in {x \in DOMAIN memory :
                                 x >= \h8000 /\ x < \h8000 + 25 * 80 /\ memory[x] # 0}
                          |-> memory[a]]])
    /\ UNCHANGED <<memory, ip, regs, cf, zf, sf, panic, overflow_checks, hist>>

Next ==
    \/ RunAlu16RegRm \/ RunAddAlImm8 \/ RunAnd8RegRm \/ RunCmpAlImm8
    \/ RunInc16 \/ RunDec16 \/ RunPush16 \/ RunPop16
    \/ RunJc \/ RunJz \/ RunJnz \/ RunJbe \/ RunJnbe \/ RunJns
    \/ RunArith8 \/ RunArith16 \/ RunArith16Imm8
    \/ RunXchg8 \/ RunMov8RegRm \/ RunMov16RegRm \/ RunMov8RmReg \/ RunMov16RmReg
    \/ RunNop \/ RunXchgAx \/ RunMovImm8 \/ RunMovImm16
    \/ RunRet \/ RunMovImm16Rm \/ RunCall \/ RunJmpShort
    \/ RunHalt \/ RunStc \/ RunIncDec8 \/ RunUnsupported
    \/ dump_memory

Spec == Init /\ [][Next]_vars

-----------------------------------------------------------------------------
(* Observations used by the properties *)

\* the number of run() calls made
Steps == Len(hist)

\* the processor state at the entry of the last run() call
Last == hist[Len(hist)]

\* the address the last run() call fetched its opcode from, and the opcode
LastAt == Last.ip

LastOpcode == MemAt(Last, Last.ip)

\* the last run() call was made with one of opcodes at ip
AfterStep(opcodes) == Len(hist) > 0 /\ LastOpcode \in opcodes

\* the last run() call returned (true or false) instead of panicking
Returned == pc # "panicked"

\* the state of the last run() call after its opcode fetch
LastFetched == read_instr8(Last).c

\* what read_mod_rm gave the last run() call
LastModRm == read_mod_rm(LastFetched)

\* byte k after the opcode of the last run() call
LastByte(k) == MemAt(Last, (Last.ip + k) % U16)

Reg16(c, r) == to16(c.regs[REG_WIDTH * r], c.regs[REG_WIDTH * r + 1])

SameMemory(c1, c2) ==
    \A a \in (DOMAIN c1.memory) \cup (DOMAIN c2.memory) : MemAt(c1, a) = MemAt(c2, a)

SameFlags(c1, c2) == c1.cf = c2.cf /\ c1.zf = c2.zf /\ c1.sf = c2.sf

-----------------------------------------------------------------------------
(* C1 *)

\* C1: whenever run() is about to push (a push or a call is at ip), then
\* for every 16-bit x, when the stack pointer s is at least 2, push16(x)
\* followed at once by pop16() returns x without a panic and leaves the stack
\* pointer equal to s.
C1_PushPopRoundTrip ==
    pc = "run" /\ MemAt(Self, ip) \in (\h50..\h57) \cup {\hE8} /\ Reg16(Self, 4) >= 2 =>
        \A x \in Words :
            LET pushed == push16(Self, x)
                popped == pop16(pushed)
            IN  /\ ~Panicked(popped.c)
                /\ popped.v = x
                /\ Reg16(popped.c, 4) = Reg16(Self, 4)

\* a push of 0x8001 with the stack pointer at 0xFFFF was followed by a pop
\* that gave 0x8001 to its register and the stack pointer is 0xFFFF again
C1_Witness ==
    /\ Len(hist) >= 2
    /\ AfterStep(\h58..\h5F)
    /\ Returned
    /\ LET before == hist[Len(hist) - 1]
       IN  /\ MemAt(before, before.ip) \in \h50..\h57
           /\ Reg16(before, 4) = \hFFFF
           /\ Reg16(before, MemAt(before, before.ip) % 8) = \h8001
           /\ Reg16(Self, LastOpcode % 8) = \h8001
           /\ Reg16(Self, 4) = \hFFFF

-----------------------------------------------------------------------------
(* C2 *)

\* C2: no panic is an index beyond the array, and a word write (0x89) or a
\* word read (0x8B) through a memory operand at 0xFFFF returns, with the low
\* byte at 0xFFFF and the high byte at address 0.
C2_WordAccessWrapsAtTop ==
    /\ panic # "index out of bounds"
    /\ AfterStep({\h89, \h8B}) /\ ~Panicked(LastModRm.c)
       /\ LastModRm.ptr = Pointer("Memory", \hFFFF) =>
          /\ Returned
          /\ LastOpcode = \h89 =>
                /\ MemAt(Self, \hFFFF) = Lo(Reg16(Last, LastModRm.rg_op))
                /\ MemAt(Self, 0) = Hi(Reg16(Last, LastModRm.rg_op))
          /\ LastOpcode = \h8B =>
                Reg16(Self, LastModRm.rg_op) = to16(MemAt(Last, \hFFFF), MemAt(Last, 0))

-----------------------------------------------------------------------------
(* C3 *)

\* C3: a step on 0xB0 + r that returns has stored the immediate in the low
\* byte of register r and left every other register byte, the upper byte of
\* register r among them, as it was.
C3_MovImm8KeepsUpperByte ==
    AfterStep(\hB0..\hB7) /\ Returned =>
        /\ regs[REG_WIDTH * (LastOpcode % 8)] = LastByte(1)
        /\ \A i \in DOMAIN regs :
              i # REG_WIDTH * (LastOpcode % 8) => regs[i] = Last.regs[i]

-----------------------------------------------------------------------------
(* C4 *)

\* the operation and the operands the last run() call gave the ALU, for the
\* 16-bit forms 0x81, 0x83 and register to r/m
LastAlu16 ==
    LET m == LastModRm
        op1 == read16(m.c, m.ptr)
    IN  [operation |-> IF LastOpcode \in {\h81, \h83} THEN Operation_from_u8(m.rg_op)
                       ELSE alu16_operation(LastOpcode),
         op1 |-> op1.v,
         op2 |-> CASE LastOpcode = \h81 -> read_instr16(op1.c).v
                   [] LastOpcode = \h83 -> sign_extend(read_instr8(op1.c).v)
                   [] OTHER -> read16(op1.c, get_register(m.rg_op)).v]

Alu16Opcodes == {\h81, \h83, \h01, \h09, \h19, \h29, \h31, \h39}

CarryIn(c) == IF c.cf THEN 1 ELSE 0

\* the unsigned carry or borrow out of the operation
ExactCarry(operation, op1, op2, carry) ==
    CASE operation = "Add" -> op1 + op2 > 65535
      [] operation = "Adc" -> op1 + op2 + carry > 65535
      [] operation \in {"Sub", "Cmp"} -> op2 > op1
      [] operation = "Sbb" -> op2 + carry > op1

\* C4: after a 16-bit Add, Adc, Sub, Sbb or Cmp step that returns, CF is the
\* exact unsigned carry or borrow out of the operation.
C4_CarryIsExact ==
    AfterStep(Alu16Opcodes) /\ Returned
    /\ LastAlu16.operation \in {"Add", "Adc", "Sub", "Sbb", "Cmp"} =>
        cf = ExactCarry(LastAlu16.operation, LastAlu16.op1, LastAlu16.op2, CarryIn(Last))

-----------------------------------------------------------------------------
(* C5 *)

\* C5: for mode 01 with r/m 011 the operand is the memory address
\* (BP + DI + sign_extend(d)) mod 2^16, d being the byte after the
\* addressing-mode byte.
C5_Mode01SignedDisplacement ==
    AfterStep(ModRmOpcodes) /\ ~Panicked(LastModRm.c)
    /\ LastByte(1) \div 64 = 1 /\ LastByte(1) % 8 = 3 =>
        LastModRm.ptr =
            Pointer("Memory",
                    (Reg16(Last, 5) + Reg16(Last, 7) + sign_extend(LastByte(2))) % U16)

-----------------------------------------------------------------------------
(* C6 *)

\* the condition of a conditional short jump, from the flags
JumpTaken(opcode, c) ==
    CASE opcode = \h72 -> c.cf
      [] opcode = \h74 -> c.zf
      [] opcode = \h75 -> ~c.zf
      [] opcode = \h76 -> c.cf \/ c.zf
      [] opcode = \h77 -> ~(c.cf \/ c.zf)
      [] opcode = \h79 -> ~c.sf

\* C6: a step on a conditional short jump fetched at p returns with ip at
\* p + 2 when the condition is false and at p + 2 + sign_extend(d) when it is
\* true (mod 2^16), and with every register, memory byte and flag as before.
C6_ConditionalJump ==
    AfterStep({\h72, \h74, \h75, \h76, \h77, \h79}) =>
        /\ Returned
        /\ ip = IF JumpTaken(LastOpcode, Last)
                THEN (LastAt + 2 + sign_extend(LastByte(1))) % U16
                ELSE (LastAt + 2) % U16
        /\ regs = Last.regs
        /\ SameMemory(Self, Last)
        /\ SameFlags(Self, Last)

-----------------------------------------------------------------------------
(* C7, C8 *)

\* the (mode, r/m) combinations the resolver defines
DefinedModRm(byte) ==
    \/ byte \div 64 = 3
    \/ <<byte \div 64, byte % 8>> \in {<<0, 1>>, <<0, 6>>, <<0, 7>>, <<1, 3>>, <<2, 5>>, <<2, 7>>}

\* the opcode of run() call i and the byte after it
OpcodeOf(i) == MemAt(hist[i], hist[i].ip)

ModRmOf(i) == MemAt(hist[i], (hist[i].ip + 1) % U16)

\* C7: run() returns false only on 0xF4 or an unsupported opcode; on every
\* other opcode, its addressing-mode byte (if it has one) being a defined
\* combination, run() returns true.
C7_OnlyHaltStops ==
    Len(hist) > 0 =>
        /\ pc \in {"halted", "done"} =>
              LastOpcode = \hF4 \/ LastOpcode \notin SupportedOpcodes
        /\ /\ LastOpcode \in SupportedOpcodes \ {\hF4}
           /\ LastOpcode \in ModRmOpcodes => DefinedModRm(LastByte(1))
           => pc = "run"

\* C8: a step whose addressing-mode byte is not a defined combination panics
\* with every register, memory byte and flag as before, and no step follows
\* it; a step whose addressing-mode byte is a defined combination does not
\* fail to resolve it.
C8_UndefinedModRmAborts ==
    /\ AfterStep(ModRmOpcodes) /\ ~DefinedModRm(LastByte(1)) =>
          /\ pc = "panicked"
          /\ Panicked(LastFetched) \/ panic = "unsupported r/m"
          /\ regs = Last.regs
          /\ SameMemory(Self, Last)
          /\ SameFlags(Self, Last)
    /\ AfterStep(ModRmOpcodes) /\ DefinedModRm(LastByte(1)) => panic # "unsupported r/m"
    /\ \A i \in 1..(Len(hist) - 1) :
          OpcodeOf(i) \in ModRmOpcodes => DefinedModRm(ModRmOf(i))

\* mov [bx+si], ax (mode 00, r/m 000) has panicked in the resolver
C8_Witness ==
    /\ AfterStep({\h89})
    /\ LastByte(1) = ModRmByte(0, 1, 0)
    /\ panic = "unsupported r/m"
    /\ pc = "panicked"

-----------------------------------------------------------------------------
(* C9 *)

\* C9: when the first opcode fetched is unsupported, run() is called once,
\* it reports the opcode and returns false, and apart from ip, which is 1,
\* the processor state is the initial one.
C9_UnsupportedFirstOpcode ==
    Len(hist) > 0 /\ OpcodeOf(1) \notin SupportedOpcodes =>
        /\ Len(hist) = 1
        /\ pc \in {"halted", "done"}
        /\ stdout[1] = [unsupported_opcode |-> OpcodeOf(1)]
        /\ ip = 1
        /\ regs = hist[1].regs
        /\ Reg16(Self, 4) = \h100
        /\ SameMemory(Self, hist[1])
        /\ ~cf /\ ~zf /\ ~sf

\* the program F1 F9 F4 has ended: 0xF1 reported, the carry flag never set
C9_Witness ==
    /\ pc = "done"
    /\ Len(hist) = 1
    /\ OpcodeOf(1) = \hF1
    /\ stdout[1] = [unsupported_opcode |-> \hF1]
    /\ MemAt(Self, 1) = \hF9
    /\ ~cf

-----------------------------------------------------------------------------
(* C10 *)

\* the image is B8 05 00 F4 at address 0
IsMov5Halt(c) ==
    \A a \in (DOMAIN c.memory) \cup (0..3) :
        MemAt(c, a) = CASE a = 0 -> \hB8 [] a = 1 -> 5 [] a = 3 -> \hF4 [] OTHER -> 0

\* C10: the program B8 05 00 F4 ends after exactly 2 run() calls with
\* register 0 equal to 5; and every step on 0xB8 + r returns with the
\* little-endian immediate word in register r and ip advanced by 3.
C10_MovImm16 ==
    /\ Len(hist) > 0 /\ IsMov5Halt(hist[1]) =>
          /\ pc \notin {"panicked"}
          /\ Len(hist) = 1 => pc = "run"
          /\ Len(hist) <= 2
          /\ Len(hist) = 2 => pc \in {"halted", "done"} /\ Reg16(Self, 0) = 5
    /\ AfterStep(\hB8..\hBF) =>
          /\ Returned
          /\ Reg16(Self, LastOpcode % 8) = to16(LastByte(1), LastByte(2))
          /\ ip = (LastAt + 3) % U16

-----------------------------------------------------------------------------
(* C11 *)

\* the last two run() calls were sub r, b and then add r, b on the same
\* register r with the same immediate word b, and both returned
LastSubThenAdd ==
    /\ Len(hist) >= 2
    /\ Returned
    /\ LET first == hist[Len(hist) - 1]
       IN  /\ MemAt(first, first.ip) = \h81
           /\ LastOpcode = \h81
           /\ MemAt(first, first.ip + 1) \in \hE8..\hEF
           /\ LastByte(1) = MemAt(first, first.ip + 1) - \h28
           /\ LastByte(2) = MemAt(first, first.ip + 2)
           /\ LastByte(3) = MemAt(first, first.ip + 3)

\* C11: for all 16-bit v1 and v2 the ALU gives v1 back when Sub(v1, v2) is
\* followed by Add of v2 to its result, whatever the flags were (in any
\* state about to run sub r, imm16); and a step
\* sub r, b followed by a step add r, b leaves register r as it was before
\* the two.
C11_SubThenAddRestores ==
    /\ pc = "run" /\ MemAt(Self, ip) = \h81 /\ MemAt(Self, (ip + 1) % U16) \in \hE8..\hEF =>
          \A v1 \in Words, v2 \in Words :
              \E sub \in {alu(Self, "Sub", v1, v2)} :
              \E add \in {alu(sub.c, "Add", sub.v, v2)} :
                  ~Panicked(add.c) /\ add.v = v1
    /\ LastSubThenAdd =>
          Reg16(Self, LastByte(1) % 8) = Reg16(hist[Len(hist) - 1], LastByte(1) % 8)

\* sub ax, 0xFFFF then add ax, 0xFFFF from ax = 0: both wrap, and ax is 0
C11_Witness ==
    /\ LastSubThenAdd
    /\ LastByte(1) = \hC0
    /\ to16(LastByte(2), LastByte(3)) = \hFFFF
    /\ Reg16(hist[Len(hist) - 1], 0) = 0
    /\ Reg16(Last, 0) = 1
    /\ Reg16(Self, 0) = 0

-----------------------------------------------------------------------------
(* C12 *)

\* the last two run() calls were an increment and a decrement of the same
\* register, in either order, and both returned
LastIncDecPair ==
    /\ Len(hist) >= 2
    /\ Returned
    /\ LET first == MemAt(hist[Len(hist) - 1], hist[Len(hist) - 1].ip)
       IN  /\ first \in \h40..\h4F
           /\ LastOpcode \in \h40..\h4F
           /\ first % 8 = LastOpcode % 8
           /\ first \div 8 # LastOpcode \div 8

\* C12: an increment of register r followed by a decrement of r, or a
\* decrement followed by an increment, leaves r with the value it had before
\* the two steps, 0x0000 and 0xFFFF included.
C12_IncThenDecRestores ==
    LastIncDecPair =>
        Reg16(Self, LastOpcode % 8) = Reg16(hist[Len(hist) - 1], LastOpcode % 8)

\* inc di from 0xFFFF wrapped to 0, and dec di brought it back to 0xFFFF
C12_Witness ==
    /\ LastIncDecPair
    /\ LastOpcode = \h4F
    /\ Reg16(hist[Len(hist) - 1], 7) = \hFFFF
    /\ Reg16(Last, 7) = 0
    /\ Reg16(Self, 7) = \hFFFF

-----------------------------------------------------------------------------
(* C13 *)

\* the operation the last run() call gave the ALU, when its opcode is one of
\* the ALU forms
LastOperation ==
    CASE LastOpcode \in {\h80, \h81, \h83} -> Operation_from_u8(LastModRm.rg_op)
      [] LastOpcode \in {\h01, \h09, \h19, \h29, \h31, \h39} -> alu16_operation(LastOpcode)
      [] LastOpcode = \h04 -> "Add"
      [] LastOpcode = \h20 -> "And"
      [] LastOpcode = \h3C -> "Cmp"

AluOpcodes == Alu16Opcodes \cup {\h04, \h20, \h3C, \h80}

\* C13: Add(v, 0) returns v with ZF = (v = 0), SF = bit 15 of v and CF false,
\* whatever the flags were; And, Or and Xor leave CF false.  Both as the ALU
\* computes them in any state about to run add r, imm16, and as the ALU
\* steps that return leave the flags and the destination.
C13_AddZeroAndLogicCarry ==
    /\ pc = "run" /\ MemAt(Self, ip) = \h81 /\ MemAt(Self, (ip + 1) % U16) \in \hC0..\hC7 =>
          /\ \A v \in Words :
                \E r \in {alu(Self, "Add", v, 0)} :
                    /\ ~Panicked(r.c)
                    /\ r.v = v
                    /\ r.c.zf = (v = 0)
                    /\ r.c.sf = (v >= 32768)
                    /\ ~r.c.cf
          /\ \A operation \in {"And", "Or", "Xor"}, op1 \in EdgeWords, op2 \in {0, \h8000, \hFFFF} :
                ~alu(Self, operation, op1, op2).c.cf
    /\ AfterStep(Alu16Opcodes) /\ Returned
       /\ LastAlu16.operation = "Add" /\ LastAlu16.op2 = 0 =>
          /\ read16(Self, LastModRm.ptr).v = LastAlu16.op1
          /\ zf = (LastAlu16.op1 = 0)
          /\ sf = (LastAlu16.op1 >= 32768)
          /\ ~cf
    /\ AfterStep(AluOpcodes) /\ Returned /\ LastOperation \in {"And", "Or", "Xor"} => ~cf

\* stc; mov ax, 0x8000; add ax, 0: the carry flag was set before the step,
\* and after it ax is 0x8000, SF is set and ZF and CF are clear
C13_Witness ==
    /\ AfterStep({\h81})
    /\ Returned
    /\ Last.cf
    /\ LastAlu16.operation = "Add"
    /\ LastAlu16.op1 = \h8000
    /\ LastAlu16.op2 = 0
    /\ Reg16(Self, 0) = \h8000
    /\ sf /\ ~zf /\ ~cf

-----------------------------------------------------------------------------
(* C14 *)

\* the destination and the two bytes the last run() call took as operands,
\* for the 8-bit ALU forms 0x04, 0x3C (AL and an immediate), 0x20 (r/m and a
\* register) and 0x80 (r/m and an immediate)
LastAlu8 ==
    IF LastOpcode \in {\h04, \h3C}
    THEN [ptr |-> AX,
          a |-> read8(LastFetched, AX).v,
          b |-> LastByte(1)]
    ELSE LET m == LastModRm
             a == read8(m.c, m.ptr)
         IN  [ptr |-> m.ptr,
              a |-> a.v,
              b |-> IF LastOpcode = \h20 THEN read8(a.c, get_register(m.rg_op)).v
                    ELSE read_instr8(a.c).v]

\* the flags of the 16-bit subtraction op1 - op2
SubFlags(op1, op2) ==
    [cf |-> op2 > op1,
     zf |-> op1 = op2,
     sf |-> (op1 + U16 - op2) % U16 >= 32768]

Flags(c) == [cf |-> c.cf, zf |-> c.zf, sf |-> c.sf]

\* C14: a Cmp-form step (0x39, 0x3C, and 0x80, 0x81, 0x83 with secondary
\* field 7) that returns leaves its destination operand, and with it every
\* register and memory byte, as before the step, and leaves CF, ZF and SF
\* the flags of the subtraction of the two operands the ALU was given.
C14_CmpKeepsDestination ==
    /\ AfterStep({\h39, \h81, \h83}) /\ Returned /\ LastAlu16.operation = "Cmp" =>
          /\ read16(Self, LastModRm.ptr).v = LastAlu16.op1
          /\ regs = Last.regs
          /\ SameMemory(Self, Last)
          /\ Flags(Self) = SubFlags(LastAlu16.op1, LastAlu16.op2)
    /\ AfterStep({\h3C, \h80}) /\ Returned /\ LastOperation = "Cmp" =>
          /\ read8(Self, LastAlu8.ptr).v = LastAlu8.a
          /\ regs = Last.regs
          /\ SameMemory(Self, Last)
          /\ Flags(Self) = SubFlags(sign_extend(LastAlu8.a), sign_extend(LastAlu8.b))

\* cmp ax, 1 with ax = 0: ax is still 0, and the flags are those of 0 - 1
C14_Witness ==
    /\ AfterStep({\h81})
    /\ Returned
    /\ LastAlu16.operation = "Cmp"
    /\ LastAlu16.op1 = 0
    /\ LastAlu16.op2 = 1
    /\ Reg16(Self, 0) = 0
    /\ cf /\ sf /\ ~zf

-----------------------------------------------------------------------------
(* C15 *)

\* the move, exchange and no-op opcodes
MoveOpcodes ==
    {\h88, \h89, \h8A, \h8B, \hC7, \h86, \h90} \cup (\hB0..\hBF) \cup (\h91..\h97)

\* C15: a step on a move (0x88, 0x89, 0x8A, 0x8B, 0xB0..0xBF, 0xC7), an
\* exchange (0x86, 0x91..0x97) or the no-op (0x90) leaves CF, ZF and SF as
\* they were before the step.
C15_MovesKeepFlags ==
    AfterStep(MoveOpcodes) => SameFlags(Self, Last)

\* or ax, -128; stc; mov [bx], ax: CF and SF were set before the move, ZF
\* was clear, the word was stored, and the flags are the same after it
C15_Witness ==
    /\ AfterStep({\h89})
    /\ Returned
    /\ LastModRm.ptr.rm = "Memory"
    /\ Last.cf /\ Last.sf /\ ~Last.zf
    /\ cf /\ sf /\ ~zf

-----------------------------------------------------------------------------
(* C16 *)

\* C16: a push step (0x50 + r) of the word x with the stack pointer at s,
\* when it returns, has put the high byte of x at address s and the low byte
\* at s - 1; and of the two single-byte pops that follow, the first gives
\* the low byte of x and the second the high byte.
C16_PushHighByteFirst ==
    AfterStep(\h50..\h57) /\ Returned /\ Reg16(Last, 4) >= 2 =>
        LET x == Reg16(Last, LastOpcode % 8)
            s == Reg16(Last, 4)
            first == pop8(Self)
            second == pop8(first.c)
        IN  /\ MemAt(Self, s) = Hi(x)
            /\ MemAt(Self, s - 1) = Lo(x)
            /\ first.v = Lo(x)
            /\ second.v = Hi(x)

-----------------------------------------------------------------------------
(* C17 *)

\* the last two run() calls were a relative call and then a near return
LastCallThenReturn ==
    /\ Len(hist) >= 2
    /\ MemAt(hist[Len(hist) - 1], hist[Len(hist) - 1].ip) = \hE8
    /\ LastOpcode = \hC3

\* C17: a step on the call 0xE8 fetched at p with offset word w returns with
\* the return address p + 3 on the stack and ip at p + 3 + w (mod 2^16); and
\* when the very next step is the return 0xC3, that step returns with ip at
\* p + 3 and the stack pointer as it was before the call.
C17_CallThenReturn ==
    /\ AfterStep({\hE8}) =>
          /\ Returned
          /\ ip = (LastAt + 3 + to16(LastByte(1), LastByte(2))) % U16
          /\ pop16(Self).v = (LastAt + 3) % U16
    /\ LastCallThenReturn =>
          /\ Returned
          /\ ip = (hist[Len(hist) - 1].ip + 3) % U16
          /\ Reg16(Self, 4) = Reg16(hist[Len(hist) - 1], 4)

-----------------------------------------------------------------------------
(* C18 *)

\* the register Operand References with an even offset in 0..14
RegisterPointers == {Pointer("Register", REG_WIDTH * k) : k \in 0..7}

\* the opcodes whose operands are registers and immediates only
RegisterOnlyOpcodes == (\h40..\h4F) \cup (\h91..\h97) \cup (\hB0..\hBF) \cup {\h04, \h3C}

\* C18: the register constants and every register reference formed from an
\* opcode or from a field of an addressing-mode byte have an even offset in
\* 0..14, so that a byte or word access through them stays within bytes
\* 0..15 of the register file; no step ends in an index out of bounds
\* except on a word access through a memory operand at 0xFFFF; and a step
\* whose operands are all registers leaves every memory byte as it was.
C18_RegisterIndexInRange ==
    /\ {AX, BX, SP, BP, DI} \subseteq RegisterPointers
    /\ pc = "run" =>
          /\ get_register(MemAt(Self, ip)) \in RegisterPointers
          /\ get_register(MemAt(Self, (ip + 1) % U16)) \in RegisterPointers
    /\ AfterStep(ModRmOpcodes) /\ ~Panicked(LastModRm.c) =>
          /\ get_register(LastModRm.rg_op) \in RegisterPointers
          /\ LastModRm.ptr.rm = "Register" => LastModRm.ptr \in RegisterPointers
    /\ panic = "index out of bounds" =>
          /\ AfterStep(ModRmOpcodes)
          /\ LastModRm.ptr = Pointer("Memory", \hFFFF)
    /\ \/ AfterStep(RegisterOnlyOpcodes)
       \/ AfterStep(ModRmOpcodes) /\ ~Panicked(LastModRm.c) /\ LastModRm.ptr.rm = "Register"
       => SameMemory(Self, Last)

\* mov di, 0x1234 (0xBF): register 7, bytes 14 and 15 of the register file,
\* holds the word and memory is as before
C18_Witness ==
    /\ AfterStep({\hBF})
    /\ Returned
    /\ get_register(LastOpcode) = Pointer("Register", 14)
    /\ regs[14] = \h34 /\ regs[15] = \h12
    /\ SameMemory(Self, Last)

-----------------------------------------------------------------------------
(* C19 *)

\* ZF and SF are those of the 16-bit value
FlagsOf16(value) == zf = (value = 0) /\ sf = (value >= 32768)

\* C19: an increment or decrement step that returns (0x40..0x4F on a
\* register; 0xFE with secondary field 0 or 1 on a byte) leaves CF as it was
\* and ZF and SF those of the new value, which is the old value plus or
\* minus one; the step 0xF9 sets CF and leaves ZF and SF as they were.
C19_IncDecKeepCarry ==
    /\ AfterStep(\h40..\h4F) /\ Returned =>
          /\ cf = Last.cf
          /\ Reg16(Self, LastOpcode % 8) =
                IF LastOpcode < \h48 THEN (Reg16(Last, LastOpcode % 8) + 1) % U16
                ELSE (Reg16(Last, LastOpcode % 8) + U16 - 1) % U16
          /\ FlagsOf16(Reg16(Self, LastOpcode % 8))
    /\ AfterStep({\hFE}) /\ Returned =>
          /\ cf = Last.cf
          /\ LastModRm.rg_op \in {0, 1}
          /\ read8(Self, LastModRm.ptr).v =
                IF LastModRm.rg_op = 0 THEN (read8(LastModRm.c, LastModRm.ptr).v + 1) % 256
                ELSE (read8(LastModRm.c, LastModRm.ptr).v + 255) % 256
          /\ zf = (read8(Self, LastModRm.ptr).v = 0)
          /\ sf = (read8(Self, LastModRm.ptr).v >= 128)
    /\ AfterStep({\hF9}) /\ Returned =>
          /\ cf
          /\ zf = Last.zf
          /\ sf = Last.sf

\* or ax, 1; stc; dec ax: CF was set and stays set, ax is 0 and ZF is set
C19_Witness ==
    /\ AfterStep({\h48})
    /\ Returned
    /\ Last.cf /\ ~Last.zf
    /\ Reg16(Last, 0) = 1
    /\ Reg16(Self, 0) = 0
    /\ cf /\ zf /\ ~sf

-----------------------------------------------------------------------------
(* C20 *)

\* C20: after a step of an 8-bit ALU form that stores its result (0x04,
\* 0x20, and 0x80 with a secondary field other than 7) and returns, ZF is
\* true exactly when the byte now in the destination is 0x00, and SF is bit
\* 7 of that byte.
C20_ByteResultFlags ==
    AfterStep({\h04, \h20, \h80}) /\ Returned /\ LastOperation # "Cmp" =>
        /\ zf = (read8(Self, LastAlu8.ptr).v = 0)
        /\ sf = (read8(Self, LastAlu8.ptr).v >= 128)

=============================================================================
